---- MODULE Spec2Model ----
(***************************************************************************)
(* Model of etl_script.py: a metadata-driven extract / transform / load    *)
(* run.  read_metadata groups the rows of a CSV file by                    *)
(* (source_table, target_table); main walks the groups in dict order and   *)
(* calls extract_data, transform_data and load_data for each.              *)
(*                                                                         *)
(* Python values are modelled as follows:                                  *)
(*   str            a TLA+ string                                          *)
(*   None           the string NoneVal, which no CSV field can equal       *)
(*   list           a sequence                                             *)
(*   dict (a Row)   a function whose DOMAIN is the set of keys             *)
(*   metadata dict  a sequence of [key, val] items in insertion order      *)
(*                  (dicts iterate in insertion order)                     *)
(***************************************************************************)
EXTENDS Integers, Sequences, FiniteSets, TLC

VARIABLES
    file,        \* the metadata file: [exists, lines]; a line is its list of fields
    pc,          \* position of main / of the caller of a single function
    metadata,    \* main's `metadata`
    idx,         \* position of the for loop of main in metadata.items()
    columns,     \* main's `columns`
    data,        \* main's `data`
    calls,       \* history: the stage invocations so far, <<stage, table>>
    reads,       \* history: number of read_metadata invocations
    extracted,   \* history: value returned by extract_data for the current key
    transformed, \* history: value returned by the (first) transform_data call
    loaded,      \* history: the rows load_data received for the current key
    stamps,      \* history: the clock readings of the latest transform_data call
    applied,     \* history: number of transform_data calls on `data`
    arg,         \* history: the rows handed to the first transform_data call
    fault        \* the uncaught exception that ended the process, or "none"

vars == <<file, pc, metadata, idx, columns, data, calls, reads, extracted,
          transformed, loaded, stamps, applied, arg, fault>>

-----------------------------------------------------------------------------
(* Bounds of the model *)

MaxLines == 3     \* lines of the metadata file after the header; length of a column list
MaxClock == 2     \* distinct readings of the wall clock
MaxData == 2      \* rows of a row sequence handed directly to transform_data

(* Program constant *)

NumRows == 3      \* rows produced by the stubbed extractor

-----------------------------------------------------------------------------
(* Values *)

NoneVal == "<None>"

Str(v) == IF v = NoneVal THEN "None" ELSE v

fieldnames == <<"source_table", "target_table", "column_name">>

Range(s) == {s[i] : i \in 1..Len(s)}

EmptyDict == [k \in {} |-> NoneVal]

SetItem(d, k, v) == [x \in (DOMAIN d) \cup {k} |-> IF x = k THEN v ELSE d[x]]

(* The inputs the model enumerates. *)

SourceTables == {"orders", "cust"}

ColNames == {"id", "processed_at"}

Lines ==
    {<<>>}                                      \* blank line
    \cup {<<"orders", "orders_dw">>}             \* line that ends before the column_name field
    \cup {<<"cust", "orders_dw", "">>}           \* line whose column_name field is empty
    \cup {<<"cust", "orders_dw", "id">>}
    \cup {<<"orders", t, c>> : t \in {"orders_dw", "orders_hist"}, c \in ColNames}

SeqsUpTo(S, n) == UNION {[1..m -> S] : m \in 0..n}

Files ==
    {[exists |-> FALSE, lines |-> <<>>]}
    \cup {[exists |-> TRUE, lines |-> ls] : ls \in SeqsUpTo(Lines, MaxLines)}

Times == 1..MaxClock

-----------------------------------------------------------------------------
(* csv.DictReader *)

DictRow(line) ==
    [f \in Range(fieldnames) |->
        LET i == CHOOSE j \in 1..Len(fieldnames) : fieldnames[j] = f
        IN  IF i <= Len(line) THEN line[i] ELSE NoneVal]

(* Variant: blank lines are not skipped. *)
RECURSIVE DictReaderKeepBlank(_)
DictReaderKeepBlank(lines) ==
    IF lines = <<>> THEN <<>>
    ELSE <<DictRow(Head(lines))>> \o DictReaderKeepBlank(Tail(lines))

RECURSIVE DictReader(_)
DictReader(lines) ==
    IF lines = <<>> THEN <<>>
    ELSE IF Head(lines) = <<>> THEN DictReader(Tail(lines))
    ELSE <<DictRow(Head(lines))>> \o DictReader(Tail(lines))

(* read_metadata *)

HasKey(md, key) == \E i \in 1..Len(md) : md[i].key = key

(* Variant: the row is inserted at the front of its group. *)
AppendToFront(md, key, row) ==
    [i \in 1..Len(md) |->
        IF md[i].key = key THEN [key |-> key, val |-> <<row>> \o md[i].val]
        ELSE md[i]]

AppendTo(md, key, row) ==
    [i \in 1..Len(md) |->
        IF md[i].key = key THEN [key |-> key, val |-> Append(md[i].val, row)]
        ELSE md[i]]

(* Variant: a group is opened whenever the key differs from the previous row's. *)
GroupRowContiguous(md, row) ==
    LET key == <<row["source_table"], row["target_table"]>>
    IN  IF md # <<>> /\ md[Len(md)].key = key
        THEN [md EXCEPT ![Len(md)].val = Append(@, row)]
        ELSE Append(md, [key |-> key, val |-> <<row>>])

GroupRow(md, row) ==
    LET key == <<row["source_table"], row["target_table"]>>
        md1 == IF HasKey(md, key) THEN md
               ELSE Append(md, [key |-> key, val |-> <<>>])
    IN  AppendTo(md1, key, row)

RECURSIVE GroupRows(_, _)
GroupRows(rows, md) ==
    IF rows = <<>> THEN md
    ELSE GroupRows(Tail(rows), GroupRow(md, Head(rows)))

read_metadata(f) == GroupRows(DictReader(f.lines), <<>>)

(* main, line 43 *)

column_names(columns_info) ==
    [i \in 1..Len(columns_info) |-> columns_info[i]["column_name"]]

(* extract_data *)

Placeholder(col) == "sample_" \o Str(col) \o "_value"

RECURSIVE DictComp(_, _)
DictComp(cols, d) ==
    IF cols = <<>> THEN d
    ELSE DictComp(Tail(cols), SetItem(d, Head(cols), Placeholder(Head(cols))))

(* Variant: one row short. *)
extract_data_short(table, cols) == [i \in 1..(NumRows - 1) |-> DictComp(cols, EmptyDict)]

extract_data(table, cols) == [i \in 1..NumRows |-> DictComp(cols, EmptyDict)]

(* transform_data *)

isoformat(t) == "T" \o ToString(t)

(* Variant: rows are returned untouched. *)
transform_data_noop(rows, ts) == rows

(* Variant: an existing processed_at is kept (setdefault instead of assignment). *)
transform_data_setdefault(rows, ts) ==
    [i \in 1..Len(rows) |->
        IF "processed_at" \in DOMAIN rows[i] THEN rows[i]
        ELSE SetItem(rows[i], "processed_at", isoformat(ts[i]))]

transform_data(rows, ts) ==
    [i \in 1..Len(rows) |-> SetItem(rows[i], "processed_at", isoformat(ts[i]))]

(* load_data: the rows as the call leaves them (it only prints them) *)

(* Variant: the rows are consumed while they are printed. *)
load_data_consume(table, rows) == <<>>

load_data(table, rows) == rows

-----------------------------------------------------------------------------
(* main.  Every stage prints to standard output before it does anything    *)
(* else; print raises OSError when the stream cannot be written, and        *)
(* open raises FileNotFoundError when the metadata file is missing.  main   *)
(* has no handler, so either ends the process.                              *)

Init ==
    /\ file \in Files
    /\ pc = "start"
    /\ metadata = <<>>
    /\ idx = 0
    /\ columns = <<>>
    /\ data = <<>>
    /\ calls = <<>>
    /\ reads = 0
    /\ extracted = <<>>
    /\ transformed = <<>>
    /\ loaded = <<>>
    /\ stamps = <<>>
    /\ applied = 0
    /\ arg = <<>>
    /\ fault = "none"

(* Variant: the exception is swallowed and the run ends as if complete. *)
RaiseSwallowed(exc) ==
    /\ pc' = "done"
    /\ fault' = exc

Raise(exc) ==
    /\ pc' = "failed"
    /\ fault' = exc

LoopEntry(md, i) == IF i <= Len(md) THEN "extract" ELSE "done"

(* Variant: load is called before transform. *)
AdvanceLoadFirst(stage, md, i) ==
    CASE stage = "extract"   -> [pc |-> "load", idx |-> i]
      [] stage = "load"      -> [pc |-> "transform", idx |-> i]
      [] stage = "transform" -> [pc |-> LoopEntry(md, i + 1), idx |-> i + 1]

(* The body of the for loop: where control goes after a stage returns. *)
Advance(stage, md, i) ==
    CASE stage = "extract"   -> [pc |-> "transform", idx |-> i]
      [] stage = "transform" -> [pc |-> "load", idx |-> i]
      [] stage = "load"      -> [pc |-> LoopEntry(md, i + 1), idx |-> i + 1]

ReadMetadata ==
    /\ pc = "start"
    /\ reads' = reads + 1
    /\ IF file.exists
       THEN /\ metadata' = read_metadata(file)
            /\ idx' = 1
            /\ pc' = LoopEntry(metadata', 1)
            /\ fault' = fault
       ELSE /\ Raise("FileNotFoundError")
            /\ UNCHANGED <<metadata, idx>>
    /\ UNCHANGED <<file, columns, data, calls, extracted, transformed, loaded,
                   stamps, applied, arg>>

Extract ==
    /\ pc = "extract"
    /\ LET cols == column_names(metadata[idx].val)
           source_table == metadata[idx].key[1]
       IN  /\ columns' = cols
           /\ calls' = Append(calls, <<"extract", source_table>>)
           /\ \E ok \in BOOLEAN :
                IF ok
                THEN /\ data' = extract_data(source_table, cols)
                     /\ extracted' = data'
                     /\ transformed' = <<>>
                     /\ loaded' = <<>>
                     /\ stamps' = <<>>
                     /\ pc' = Advance("extract", metadata, idx).pc
                     /\ idx' = Advance("extract", metadata, idx).idx
                     /\ fault' = fault
                ELSE /\ Raise("OSError")
                     /\ UNCHANGED <<idx, data, extracted, transformed, loaded, stamps>>
    /\ UNCHANGED <<file, metadata, reads, applied, arg>>

Transform ==
    /\ pc = "transform"
    /\ calls' = Append(calls, <<"transform", metadata[idx].key[1]>>)
    /\ \E ok \in BOOLEAN :
         IF ok
         THEN \E ts \in [1..Len(data) -> Times] :
                /\ data' = transform_data(data, ts)
                /\ transformed' = data'
                /\ stamps' = ts
                /\ pc' = Advance("transform", metadata, idx).pc
                /\ idx' = Advance("transform", metadata, idx).idx
                /\ fault' = fault
         ELSE /\ Raise("OSError")
              /\ UNCHANGED <<idx, data, transformed, stamps>>
    /\ UNCHANGED <<file, metadata, columns, reads, extracted, loaded, applied, arg>>

Load ==
    /\ pc = "load"
    /\ calls' = Append(calls, <<"load", metadata[idx].key[2]>>)
    /\ loaded' = data
    /\ \E ok \in BOOLEAN :
         IF ok
         THEN /\ data' = load_data(metadata[idx].key[2], data)
              /\ pc' = Advance("load", metadata, idx).pc
              /\ idx' = Advance("load", metadata, idx).idx
              /\ fault' = fault
         ELSE /\ Raise("OSError")
              /\ UNCHANGED <<idx, data>>
    /\ UNCHANGED <<file, metadata, columns, reads, extracted, transformed,
                   stamps, applied, arg>>

Next == ReadMetadata \/ Extract \/ Transform \/ Load

Spec == Init /\ [][Next]_vars

-----------------------------------------------------------------------------
(* extract_data and transform_data called on their own, on arbitrary arguments *)

InputRows == {[k \in S |-> "old_" \o k] : S \in SUBSET ColNames}

PureInit ==
    /\ file = [exists |-> FALSE, lines |-> <<>>]
    /\ pc = "call"
    /\ metadata = <<>>
    /\ idx = 0
    /\ columns = <<>>
    /\ data \in SeqsUpTo(InputRows, MaxData)
    /\ calls = <<>>
    /\ reads = 0
    /\ extracted = <<>>
    /\ transformed = <<>>
    /\ loaded = <<>>
    /\ stamps = <<>>
    /\ applied = 0
    /\ arg = data
    /\ fault = "none"

CallExtract ==
    /\ pc = "call"
    /\ \E table \in SourceTables,
          cols \in SeqsUpTo(ColNames \cup {NoneVal, ""}, MaxLines) :
         /\ columns' = cols
         /\ calls' = Append(calls, <<"extract", table>>)
         /\ data' = extract_data(table, cols)
         /\ extracted' = data'
    /\ pc' = "extract_ret"
    /\ UNCHANGED <<file, metadata, idx, reads, transformed, loaded, stamps,
                   applied, arg, fault>>

CallTransform ==
    /\ pc \in {"call", "transform_ret"}
    /\ applied < 2
    /\ \E ts \in [1..Len(data) -> Times] :
         /\ data' = transform_data(data, ts)
         /\ stamps' = ts
         /\ transformed' = IF applied = 0 THEN data' ELSE transformed
    /\ applied' = applied + 1
    /\ pc' = "transform_ret"
    /\ UNCHANGED <<file, metadata, idx, columns, calls, reads, extracted, loaded,
                   arg, fault>>

PureNext == CallExtract \/ CallTransform

PureSpec == PureInit /\ [][PureNext]_vars

-----------------------------------------------------------------------------
(* What the metadata file says, read directly off its lines *)

FieldOf(line, i) == IF i <= Len(line) THEN line[i] ELSE NoneVal

LineKey(line) == <<FieldOf(line, 1), FieldOf(line, 2)>>

DataLines == SelectSeq(file.lines, LAMBDA l : l # <<>>)

LinesOf(key) == SelectSeq(DataLines, LAMBDA l : LineKey(l) = key)

FileColumns(key) ==
    LET ls == LinesOf(key) IN [i \in 1..Len(ls) |-> FieldOf(ls[i], 3)]

FileKeys == LET ls == DataLines IN {LineKey(ls[i]) : i \in 1..Len(ls)}

FirstAt(key) ==
    LET ls == DataLines
    IN  CHOOSE i \in 1..Len(ls) :
            /\ LineKey(ls[i]) = key
            /\ \A j \in 1..(i - 1) : LineKey(ls[j]) # key

(* The distinct keys of the file, ordered by the line each first appears on. *)
KeyRank(key) == Cardinality({k \in FileKeys : FirstAt(k) < FirstAt(key)}) + 1

MetadataLoaded == pc \notin {"start", "failed"} \/ calls # <<>>

StageOf(i) == <<"extract", "transform", "load">>[((i - 1) % 3) + 1]

KeyIndexOf(i) == ((i - 1) \div 3) + 1

LastCall == calls[Len(calls)]

-----------------------------------------------------------------------------
(* C1: once the metadata is read, the groups are exactly the keys of the    *)
(* file, and the column list main derives for each key is the sequence of   *)
(* column_name values of the rows with that key, in file order, repeated    *)
(* names kept.                                                              *)
C1_ColumnListInFileOrder ==
    MetadataLoaded =>
        /\ {metadata[k].key : k \in 1..Len(metadata)} = FileKeys
        /\ \A k \in 1..Len(metadata) :
             column_names(metadata[k].val) = FileColumns(metadata[k].key)
        /\ pc \in {"transform", "load"} => columns = FileColumns(metadata[idx].key)

(* A key whose rows are split by another key's row and repeat a column name. *)
C1_Witness ==
    /\ pc = "transform"
    /\ Len(columns) = 2
    /\ columns[1] = columns[2]
    /\ Len(metadata) = 2
    /\ LineKey(DataLines[2]) # metadata[idx].key

(* C2: the rows extracted for a key hold exactly the columns listed for the *)
(* key in the file; after transform_data they hold exactly those columns    *)
(* and processed_at.                                                        *)
C2_RowColumns ==
    /\ pc = "transform" =>
         \A i \in 1..Len(data) : DOMAIN data[i] = Range(FileColumns(metadata[idx].key))
    /\ pc = "load" =>
         \A i \in 1..Len(data) :
            DOMAIN data[i] = Range(FileColumns(metadata[idx].key)) \cup {"processed_at"}

(* Transformed rows of a key that lists processed_at and repeats a name. *)
C2_Witness ==
    /\ pc = "load"
    /\ Len(data) = 3
    /\ "processed_at" \in Range(columns)
    /\ "id" \in Range(columns)
    /\ Len(columns) > Cardinality(Range(columns))

(* C3: the metadata is read once, before any stage; the stage invocations   *)
(* are extract, transform, load for the first key, then the same for the    *)
(* second key, and so on, never interleaved.                                *)
C3_StageOrder ==
    /\ reads <= 1
    /\ calls # <<>> => reads = 1 /\ MetadataLoaded
    /\ \A i \in 1..Len(calls) :
         /\ KeyIndexOf(i) <= Len(metadata)
         /\ calls[i][1] = StageOf(i)
         /\ calls[i][2] = IF StageOf(i) = "load" THEN metadata[KeyIndexOf(i)].key[2]
                          ELSE metadata[KeyIndexOf(i)].key[1]

(* The second key's extract has started after the first key's load. *)
C3_Witness ==
    /\ Len(calls) = 5
    /\ pc = "load"
    /\ metadata[1].key # metadata[2].key

C5_TransformTwice ==
    applied = 2 =>
        /\ Len(data) = Len(transformed)
        /\ Len(data) = Len(arg)
        /\ \A i \in 1..Len(data) :
             /\ DOMAIN data[i] = DOMAIN transformed[i]
             /\ DOMAIN data[i] = (DOMAIN arg[i]) \cup {"processed_at"}
             /\ \A c \in (DOMAIN data[i]) \ {"processed_at"} :
                  data[i][c] = transformed[i][c] /\ data[i][c] = arg[i][c]
             /\ data[i]["processed_at"] = "T" \o ToString(stamps[i])

(* Two applications whose timestamps differ on a row that has other fields. *)
C5_Witness ==
    /\ applied = 2
    /\ Len(data) >= 1
    /\ "id" \in DOMAIN data[1]
    /\ data[1]["processed_at"] # transformed[1]["processed_at"]

(* C6: a line lacking the column_name field makes the run fail with an      *)
(* error: no group holds an entry whose column_name is absent or empty, and  *)
(* extract_data is never called with such a column.                         *)
C6_MalformedRowRejected ==
    /\ \A k \in 1..Len(metadata) : \A i \in 1..Len(metadata[k].val) :
         metadata[k].val[i]["column_name"] \notin {NoneVal, ""}
    /\ \A i \in 1..Len(columns) : columns[i] \notin {NoneVal, ""}
    /\ (pc # "start" /\ \E i \in 1..Len(DataLines) : Len(DataLines[i]) < 3)
          => pc = "failed"

(* C7: a metadata file without data rows gives an empty grouping, no stage  *)
(* call, and a clean end of the run.                                        *)
C7_EmptyMetadata ==
    (file.exists /\ DataLines = <<>> /\ pc # "start") =>
        /\ metadata = <<>>
        /\ calls = <<>>
        /\ pc = "done"
        /\ fault = "none"

(* The run over a header-only file has ended. *)
C7_Witness ==
    /\ file.exists
    /\ file.lines = <<>>
    /\ pc = "done"

(* C8: load_data receives the rows transform_data returned: the 3 extracted *)
(* rows, in order, differing from them in processed_at only; load_data      *)
(* leaves the rows and the metadata grouping as they were.                  *)
C8_LoadFrame ==
    /\ [](calls # <<>> /\ LastCall[1] = "load" =>
            /\ loaded = transformed
            /\ data = loaded
            /\ Len(loaded) = 3
            /\ Len(extracted) = 3
            /\ \A i \in 1..Len(loaded) :
                 /\ DOMAIN loaded[i] = (DOMAIN extracted[i]) \cup {"processed_at"}
                 /\ \A c \in (DOMAIN extracted[i]) \ {"processed_at"} :
                      loaded[i][c] = extracted[i][c])
    /\ [][pc = "load" => metadata' = metadata]_vars

(* A load has returned and the loop has moved on to another key. *)
C8_Witness ==
    /\ calls # <<>>
    /\ LastCall[1] = "load"
    /\ pc = "extract"
    /\ Len(loaded) = 3

(* C9: a fault ends the process where it occurs: a failed read leaves no    *)
(* stage call; a failed stage is the last call ever made, the calls before  *)
(* it stand as they are, and no step follows.                               *)
C9_FaultHalts ==
    /\ [](fault # "none" =>
            /\ pc = "failed"
            /\ fault = "FileNotFoundError" => calls = <<>> /\ metadata = <<>>
            /\ fault = "OSError" =>
                 /\ calls # <<>>
                 /\ KeyIndexOf(Len(calls)) = idx
                 /\ \A i \in 1..Len(calls) : calls[i][1] = StageOf(i))
    /\ [][fault = "none"]_vars

(* The second of three keys failed after the first was loaded. *)
C9_Witness ==
    /\ pc = "failed"
    /\ fault = "OSError"
    /\ idx = 2
    /\ Len(metadata) = 3
    /\ Len(calls) >= 4

(* C10: a run without a fault ends (it is never stuck short of the end, and *)
(* every step adds a call, of which there are at most three per key), and   *)
(* at its end extract, transform and load have each been called exactly     *)
(* once per distinct key of the file, in the order in which the keys first  *)
(* appear.                                                                  *)
C10_OncePerKeyInOrder ==
    /\ pc = "done" =>
         /\ Len(calls) = 3 * Cardinality(FileKeys)
         /\ \A key \in FileKeys :
              LET r == KeyRank(key)
              IN  /\ calls[3 * r - 2] = <<"extract", key[1]>>
                  /\ calls[3 * r - 1] = <<"transform", key[1]>>
                  /\ calls[3 * r] = <<"load", key[2]>>
    /\ (fault = "none" /\ pc \notin {"start", "done"}) =>
          ENABLED (Extract \/ Transform \/ Load)
    /\ reads + Len(calls) <= 1 + 3 * Cardinality(FileKeys)

(* A finished run over a file in which a key's rows are not contiguous. *)
C10_Witness ==
    /\ pc = "done"
    /\ Len(DataLines) = 3
    /\ LineKey(DataLines[1]) = LineKey(DataLines[3])
    /\ LineKey(DataLines[1]) # LineKey(DataLines[2])
    /\ Len(calls) = 6

====
